---------------------------- MODULE Spec2Model ----------------------------
(***************************************************************************)
(* Model of the polygon toolkit of API_work2.py (generators, transforms,   *)
(* filters, aggregators, geometry kernel) and of the console loop of       *)
(* user_interface.py.                                                      *)
(*                                                                         *)
(* Numbers.  Python floats are modelled by integers read as fixed-point    *)
(* values of resolution 1/Unit.  Sums, differences and products of         *)
(* integers are exact, as they are in floating point for the magnitudes    *)
(* used here.  The irrational factors (sqrt(3), sin, cos) are rounded to   *)
(* the resolution.  A quotient by 2 and the value math.inf are kept exact  *)
(* as a fraction num/den (den = 0 for +infinity).                          *)
(*                                                                         *)
(* A Point is <<x, y>>.  A Polygon is a sequence of Points; Python's       *)
(* poly[i] (0-based) is poly[i + 1] here.                                  *)
(***************************************************************************)
EXTENDS Integers, Sequences, FiniteSets, TLC

VARIABLES
    pc,        \* control position of the running scenario
    op,        \* name of the function applied last ("none" before any call)
    args,      \* arguments of that call besides the polygon(s), in call order;
               \* after a generator: <<generator, its arguments>>
    poly,      \* the polygon a kernel function, transform or generator works on
    point,     \* the query point
    polygons,  \* a polygon sequence: input of filters/aggregators, list of main_console
    result,    \* value returned by the last call
    err,       \* exception raised by the last call ("none" when it returned)
    it,        \* the lazy filter object: <<kind, parameter, read position, reads>>
    out,       \* polygons the consumer has obtained from the filter so far
    apiBound,  \* whether the names of API_work2 are bound in user_interface
    steps,     \* menu iterations executed by main_console
    last       \* main_console: <<menu choice, index, list before>> of the last iteration

vars == <<pc, op, args, poly, point, polygons, result, err, it, out,
          apiBound, steps, last>>

---------------------------------------------------------------------------
(* Bounds of the model *)

GridMax == 2
MaxVerts == 3
MaxShift == 1
MaxK == 2
MaxDim == 4
MaxSeq == 2
MaxSteps == 3

---------------------------------------------------------------------------
(* Numbers *)

Unit == 1000

Sqrt3 == 1732

\* the fraction n/d
R(n, d) == <<n, d>>

Num(r) == r[1]

Den(r) == r[2]

Float(n) == R(n, 1)

Inf == R(1, 0)

Half(n) == IF n % 2 = 0 THEN R(n \div 2, 1) ELSE R(n, 2)

RLess(a, b) == Num(a) * Den(b) < Num(b) * Den(a)

RAdd(a, b) ==
    IF Den(a) = 0 \/ Den(b) = 0 THEN Inf
    ELSE Half(Num(a) * (2 \div Den(a)) + Num(b) * (2 \div Den(b)))

RMulInt(a, k) == IF Den(a) = 0 THEN Inf ELSE Half(Num(a) * (2 \div Den(a)) * k)

Abs(n) == IF n < 0 THEN -n ELSE n

Min2(a, b) == IF b < a THEN b ELSE a

Max2(a, b) == IF b > a THEN b ELSE a

RECURSIVE ISqrtFrom(_, _)
ISqrtFrom(n, r) == IF (r + 1) * (r + 1) > n THEN r ELSE ISqrtFrom(n, r + 1)

hypot(dx, dy) == ISqrtFrom(dx * dx + dy * dy, 0)

\* degrees -> cos, sin in units of 1/Unit, for the multiples of 30 degrees
Cos(angle_deg) ==
    LET a == angle_deg % 360 IN
    CASE a = 0 -> Unit
      [] a \in {30, 330} -> (Sqrt3 \div 2)
      [] a \in {60, 300} -> (Unit \div 2)
      [] a \in {90, 270} -> 0
      [] a \in {120, 240} -> -(Unit \div 2)
      [] a \in {150, 210} -> -(Sqrt3 \div 2)
      [] a = 180 -> -Unit

Sin(angle_deg) == Cos(angle_deg + 270)

\* fixed-point product of a coordinate by a factor given in units of 1/Unit
Scaled(v, f) == (v * f) \div Unit

---------------------------------------------------------------------------
(* Geometry kernel *)

Vertex(p, i) == p[(i % Len(p)) + 1]

cross_products(p) ==
    [i \in 0 .. Len(p) - 1 |->
        LET p0 == Vertex(p, i)
            p1 == Vertex(p, i + 1)
            p2 == Vertex(p, i + 2)
        IN  (p1[1] - p0[1]) * (p2[2] - p1[2]) - (p1[2] - p0[2]) * (p2[1] - p1[1])]

\* (only the counter-clockwise half of the test)
is_convex_ccw_only(p) ==
    IF Len(p) < 3 THEN FALSE
    ELSE LET c == cross_products(p) IN \A i \in DOMAIN c : c[i] >= 0

\* (the test for n < 3 left out)
is_convex_noguard(p) ==
    LET c == cross_products(p) IN
    (\A i \in DOMAIN c : c[i] >= 0) \/ (\A i \in DOMAIN c : c[i] <= 0)

is_convex(p) ==
    IF Len(p) < 3 THEN FALSE
    ELSE LET c == cross_products(p) IN
         (\A i \in DOMAIN c : c[i] >= 0) \/ (\A i \in DOMAIN c : c[i] <= 0)

RECURSIVE shoelace(_, _)
shoelace(p, i) ==
    IF i >= Len(p) THEN 0
    ELSE LET a == Vertex(p, i)
             b == Vertex(p, i + 1)
         IN  (a[1] * b[2] - b[1] * a[2]) + shoelace(p, i + 1)

\* (abs() left out)
polygon_area_signed(p) == Half(shoelace(p, 0))

polygon_area(p) == Half(Abs(shoelace(p, 0)))

RECURSIVE perimeter_from(_, _)
perimeter_from(p, i) ==
    IF i >= Len(p) THEN 0
    ELSE LET a == Vertex(p, i)
             b == Vertex(p, i + 1)
         IN  hypot(b[1] - a[1], b[2] - a[2]) + perimeter_from(p, i + 1)

polygon_perimeter(p) == Float(perimeter_from(p, 0))

\* x < (x2 - x1) * (y - y1) / (y2 - y1) + x1, for y2 # y1, without rounding
LeftOfIntercept(x, y, x1, y1, x2, y2) ==
    LET n == (x2 - x1) * (y - y1)
        d == y2 - y1
    IN  IF d > 0 THEN (x - x1) * d < n ELSE (x - x1) * d > n

OnEdge(x, y, x1, y1, x2, y2) ==
    /\ Min2(x1, x2) <= x /\ x <= Max2(x1, x2)
    /\ Min2(y1, y2) <= y /\ y <= Max2(y1, y2)
    /\ (x2 - x1) * (y - y1) - (y2 - y1) * (x - x1) = 0

RECURSIVE pip_loop(_, _, _, _)
pip_loop(p, pt, i, inside) ==
    IF i >= Len(p) THEN inside
    ELSE LET a == Vertex(p, i)
             b == Vertex(p, i + 1)
         IN  IF OnEdge(pt[1], pt[2], a[1], a[2], b[1], b[2]) THEN TRUE
             ELSE IF /\ (a[2] > pt[2]) # (b[2] > pt[2])
                     /\ LeftOfIntercept(pt[1], pt[2], a[1], a[2], b[1], b[2])
                  THEN pip_loop(p, pt, i + 1, ~inside)
                  ELSE pip_loop(p, pt, i + 1, inside)

\* (the ray casting alone, the boundary case left out)
RECURSIVE pip_loop_noedge(_, _, _, _)
pip_loop_noedge(p, pt, i, inside) ==
    IF i >= Len(p) THEN inside
    ELSE LET a == Vertex(p, i)
             b == Vertex(p, i + 1)
         IN  IF /\ (a[2] > pt[2]) # (b[2] > pt[2])
                /\ LeftOfIntercept(pt[1], pt[2], a[1], a[2], b[1], b[2])
             THEN pip_loop_noedge(p, pt, i + 1, ~inside)
             ELSE pip_loop_noedge(p, pt, i + 1, inside)

point_in_polygon_noedge(p, pt) == pip_loop_noedge(p, pt, 0, FALSE)

point_in_polygon(p, pt) == pip_loop(p, pt, 0, FALSE)

---------------------------------------------------------------------------
(* Generators *)

gen_rectangle(width, height) ==
    << <<0, 0>>, <<0, height>>, <<width, height>>, <<width, 0>> >>

gen_triangle(side) ==
    LET height == Scaled(side, Sqrt3) \div 2
    IN  << <<0, 0>>, <<side, 0>>, <<side \div 2, height>> >>

gen_hexagon(side) ==
    [k \in 1 .. 6 |-> <<Scaled(side, Cos(60 * (k - 1))), Scaled(side, Sin(60 * (k - 1)))>>]

---------------------------------------------------------------------------
(* Transforms *)

tr_translate(p, dx, dy) == [i \in DOMAIN p |-> <<p[i][1] + dx, p[i][2] + dy>>]

tr_rotate(p, angle_deg, cx, cy) ==
    LET sin == Sin(angle_deg)
        cos == Cos(angle_deg)
    IN  [i \in DOMAIN p |->
            <<cx + Scaled(p[i][1] - cx, cos) - Scaled(p[i][2] - cy, sin),
              cy + Scaled(p[i][1] - cx, sin) + Scaled(p[i][2] - cy, cos)>>]

tr_symmetry(p, axis) ==
    IF axis = "x" THEN [i \in DOMAIN p |-> <<p[i][1], -p[i][2]>>]
    ELSE [i \in DOMAIN p |-> <<-p[i][1], p[i][2]>>]

\* (y left unscaled)
tr_homothety_xonly(p, k, cx, cy) ==
    [i \in DOMAIN p |-> <<cx + (p[i][1] - cx) * k, p[i][2]>>]

tr_homothety(p, k, cx, cy) ==
    [i \in DOMAIN p |-> <<cx + (p[i][1] - cx) * k, cy + (p[i][2] - cy) * k>>]

---------------------------------------------------------------------------
(* Filters.  filter(pred, polygons) is a lazy object: it holds the         *)
(* predicate and its position in the input, and reads the input only when  *)
(* the consumer asks for the next element.                                 *)

\* (<= in place of <)
flt_square_pred_le(p, max_area) == ~RLess(max_area, polygon_area(p))

flt_square_pred(p, max_area) == RLess(polygon_area(p), max_area)

\* (is_convex left out)
flt_point_inside_pred_anyshape(p, pt) == point_in_polygon(p, pt)

flt_point_inside_pred(p, pt) == is_convex(p) /\ point_in_polygon(p, pt)

\* the filter object: <<kind, parameter, elements of the input read, reads of each>>
Kind(f) == f[1]

Arg(f) == f[2]

Pos(f) == f[3]

Reads(f) == f[4]

NewFilter(kind, arg, input) ==
    <<kind, arg, 0, [j \in DOMAIN input |-> 0]>>

flt_square(input, max_area) == NewFilter("flt_square", max_area, input)

flt_point_inside(input, pt) == NewFilter("flt_point_inside", pt, input)

Passes(f, p) ==
    CASE Kind(f) = "flt_square" -> flt_square_pred(p, Arg(f))
      [] Kind(f) = "flt_point_inside" -> flt_point_inside_pred(p, Arg(f))

\* position of the element the next call of next() stops at: the first one
\* after Pos(f) that passes, or 0 when the input runs out first
NextHit(f, input) ==
    LET hits == {j \in (Pos(f) + 1) .. Len(input) : Passes(f, input[j])}
    IN  IF hits = {} THEN 0 ELSE CHOOSE j \in hits : \A h \in hits : j <= h

ReadUpTo(f, to) ==
    <<Kind(f), Arg(f), to,
      [j \in DOMAIN Reads(f) |->
          IF Pos(f) < j /\ j <= to THEN Reads(f)[j] + 1 ELSE Reads(f)[j]]>>

---------------------------------------------------------------------------
(* Aggregators: reduce(function, polygons, seed), folded from the left.    *)

Lift(pt) == <<Float(pt[1]), Float(pt[2])>>

\* the order of math.hypot(p[0], p[1]), kept exact through its square
DistKey(ep) ==
    IF Den(ep[1]) = 0 \/ Den(ep[2]) = 0 THEN Inf
    ELSE Float(Num(ep[1]) * Num(ep[1]) + Num(ep[2]) * Num(ep[2]))

\* min(items, key = ...): the first item of the smallest key
MinByKey(items) ==
    LET i == CHOOSE i \in DOMAIN items :
                 /\ \A j \in DOMAIN items : ~RLess(DistKey(items[j]), DistKey(items[i]))
                 /\ \A j \in 1 .. i - 1 : RLess(DistKey(items[i]), DistKey(items[j]))
    IN  items[i]

RECURSIVE nearest_from(_, _, _)
nearest_from(polys, i, closest) ==
    IF i > Len(polys) THEN closest
    ELSE nearest_from(polys, i + 1,
             MinByKey(Append([j \in DOMAIN polys[i] |-> Lift(polys[i][j])], closest)))

\* (seeded with the origin)
agr_origin_nearest_zero_seed(polys) == nearest_from(polys, 1, <<Float(0), Float(0)>>)

agr_origin_nearest(polys) == nearest_from(polys, 1, <<Inf, Inf>>)

RECURSIVE max_edge_from(_, _)
max_edge_from(p, i) ==
    LET a == Vertex(p, i)
        b == Vertex(p, i + 1)
        len == hypot(b[1] - a[1], b[2] - a[2])
    IN  IF i = Len(p) - 1 THEN len ELSE Max2(len, max_edge_from(p, i + 1))

RECURSIVE max_side_from(_, _, _)
max_side_from(polys, i, max_len) ==
    IF i > Len(polys) THEN max_len
    ELSE max_side_from(polys, i + 1, Max2(max_len, max_edge_from(polys[i], 0)))

\* max() of an empty generator raises ValueError
agr_max_side_raises(polys) == \E i \in DOMAIN polys : Len(polys[i]) = 0

agr_max_side(polys) == Float(max_side_from(polys, 1, 0))

RECURSIVE min_area_from(_, _, _)
min_area_from(polys, i, min_a) ==
    IF i > Len(polys) THEN min_a
    ELSE LET a == polygon_area(polys[i])
         IN  min_area_from(polys, i + 1, IF RLess(a, min_a) THEN a ELSE min_a)

\* (seeded with 0.0)
agr_min_area_zero_seed(polys) == min_area_from(polys, 1, Float(0))

agr_min_area(polys) == min_area_from(polys, 1, Inf)

RECURSIVE perimeter_sum_from(_, _, _)
perimeter_sum_from(polys, i, total) ==
    IF i > Len(polys) THEN total
    ELSE perimeter_sum_from(polys, i + 1, RAdd(total, polygon_perimeter(polys[i])))

agr_perimeter(polys) == perimeter_sum_from(polys, 1, Float(0))

RECURSIVE area_sum_from(_, _, _)
area_sum_from(polys, i, total) ==
    IF i > Len(polys) THEN total
    ELSE area_sum_from(polys, i + 1, RAdd(total, polygon_area(polys[i])))

agr_area(polys) == area_sum_from(polys, 1, Float(0))

---------------------------------------------------------------------------
(* Calls of the pure functions: one call per behaviour, on inputs drawn at *)
(* Init.                                                                   *)

None == [none |-> TRUE]

NoIter == <<"none", None, 0, <<>> >>

NoLast == <<"0", 0, <<>> >>

Points == (0 .. GridMax) \X (0 .. GridMax)

Polys == UNION {[1 .. n -> Points] : n \in 0 .. MaxVerts}

Shifts == {-MaxShift, 0, MaxShift}

Factors == (-MaxK) .. MaxK

Centres == {<<0, 0>>, <<1, GridMax>>}

Idle ==
    /\ pc = "ready" /\ op = "none" /\ args = None /\ result = None /\ err = "none"
    /\ it = NoIter /\ out = <<>> /\ apiBound = FALSE /\ steps = 0 /\ last = NoLast

Return(name, a, r) ==
    /\ pc = "ready"
    /\ pc' = "done"
    /\ op' = name
    /\ args' = a
    /\ result' = r
    /\ err' = "none"
    /\ UNCHANGED <<poly, point, polygons, it, out, apiBound, steps, last>>

Call_polygon_area == Return("polygon_area", None, polygon_area(poly))

Call_is_convex == Return("is_convex", None, is_convex(poly))

Call_tr_translate ==
    \E dx \in Shifts, dy \in Shifts :
        Return("tr_translate", <<dx, dy>>, tr_translate(poly, dx, dy))

Call_tr_symmetry ==
    \E axis \in {"x", "y"} :
        Return("tr_symmetry", <<axis>>, tr_symmetry(poly, axis))

Call_tr_homothety ==
    \E k \in Factors, c \in Centres :
        Return("tr_homothety", <<k, c[1], c[2]>>,
               tr_homothety(poly, k, c[1], c[2]))

InitKernel ==
    /\ Idle
    /\ poly \in Polys
    /\ point = <<0, 0>>
    /\ polygons = <<>>

Init == InitKernel

Next ==
    \/ Call_polygon_area
    \/ Call_is_convex
    \/ Call_tr_translate
    \/ Call_tr_symmetry

Spec == Init /\ [][Next]_vars

NextScale == Call_tr_homothety

SpecScale == InitKernel /\ [][NextScale]_vars

---------------------------------------------------------------------------
(* C3: polygon_area(P) >= 0 for every polygon P, and the area of           *)
(* tr_translate(P, dx, dy) and of tr_symmetry(P, axis), axis "x" or "y",   *)
(* equals the area of P.                                                   *)
AreaNonNegativeAndInvariant ==
    /\ op = "polygon_area" => (Den(result) > 0 /\ Num(result) >= 0)
    /\ op = "tr_translate" => polygon_area(result) = polygon_area(poly)
    /\ op = "tr_symmetry" => polygon_area(result) = polygon_area(poly)

AreaInvariantWitness ==
    /\ op = "tr_translate"
    /\ args[1] # 0 /\ args[2] # 0
    /\ Len(poly) = 3
    /\ polygon_area(poly) = Float(2)
    /\ result # poly

\* C4: polygon_area(tr_homothety(P, k, cx, cy)) = k * k * polygon_area(P) for
\* every polygon P, every factor k (positive, zero or negative) and every centre.
HomothetyScalesAreaByKSquared ==
    op = "tr_homothety" =>
        polygon_area(result) = RMulInt(polygon_area(poly), args[1] * args[1])

HomothetyWitness ==
    /\ op = "tr_homothety"
    /\ args[1] = -2
    /\ <<args[2], args[3]>> # <<0, 0>>
    /\ polygon_area(poly) = Half(1)
    /\ polygon_area(result) = Float(2)

\* C6: for every vertex sequence of fewer than 3 vertices is_convex returns
\* false and polygon_area returns 0, and neither call raises.
DegenerateResults ==
    Len(poly) < 3 =>
        /\ op = "is_convex" => (result = FALSE /\ err = "none")
        /\ op = "polygon_area" => (result = Float(0) /\ err = "none")

DegenerateWitness ==
    /\ Len(poly) = 2
    /\ poly[1] # poly[2]
    /\ op = "is_convex"
    /\ result = FALSE

---------------------------------------------------------------------------
(* Generated polygons: a generator is called with positive dimensions,     *)
(* then a kernel predicate is applied to the polygon it returned.          *)

Dims == {Unit \div 10} \cup {d * (Unit \div 2) : d \in 1 .. MaxDim}

GenCoords == {Unit \div 20, Unit \div 10} \cup {c * (Unit \div 2) : c \in -1 .. MaxDim + 1}

GenPoints == GenCoords \X GenCoords

Generators == {"gen_rectangle", "gen_triangle", "gen_hexagon"}

Generate(name, a, p) ==
    /\ pc = "ready"
    /\ op = "none"
    /\ op' = name
    /\ args' = a
    /\ poly' = p
    /\ UNCHANGED <<pc, point, polygons, result, err, it, out, apiBound, steps, last>>

Call_gen_rectangle ==
    \E w \in Dims, h \in Dims :
        Generate("gen_rectangle", <<"gen_rectangle", w, h>>,
                 gen_rectangle(w, h))

Call_gen_triangle ==
    \E side \in Dims :
        Generate("gen_triangle", <<"gen_triangle", side>>, gen_triangle(side))

Call_gen_hexagon ==
    \E side \in Dims :
        Generate("gen_hexagon", <<"gen_hexagon", side>>, gen_hexagon(side))

Gen_is_convex ==
    /\ op \in Generators
    /\ Return("is_convex", args, is_convex(poly))

Gen_point_in_polygon ==
    /\ op \in Generators
    /\ Return("point_in_polygon", args, point_in_polygon(poly, point))

InitGen ==
    /\ Idle
    /\ poly = <<>>
    /\ point \in GenPoints
    /\ polygons = <<>>

NextGen ==
    \/ Call_gen_rectangle
    \/ Call_gen_triangle
    \/ Call_gen_hexagon
    \/ Gen_is_convex
    \/ Gen_point_in_polygon

SpecGen == InitGen /\ [][NextGen]_vars

\* C2: for every rectangle gen_rectangle(w, h) with positive w, h and every
\* point (x, y), point_in_polygon is true exactly when 0 <= x <= w and
\* 0 <= y <= h; points on an edge or at a vertex count as inside.
RectangleContainsExactlyItsBox ==
    (op = "point_in_polygon" /\ args[1] = "gen_rectangle") =>
        result = (/\ 0 <= point[1] /\ point[1] <= args[2]
                  /\ 0 <= point[2] /\ point[2] <= args[3])

RectangleEdgeWitness ==
    /\ op = "point_in_polygon"
    /\ args[1] = "gen_rectangle"
    /\ args[2] = 2 * Unit /\ args[3] = 2 * Unit
    /\ point = <<0, Unit>>
    /\ result = TRUE

---------------------------------------------------------------------------
(* Polygon sequences: an aggregator folds the sequence in one call; a      *)
(* filter is created over it and a consumer draws its elements one next()  *)
(* at a time until it is exhausted.                                        *)

Arrow == << <<0, 0>>, <<4, 2>>, <<0, 4>>, <<1, 2>> >>

SeqPolys ==
    { gen_rectangle(2, 3),
      gen_rectangle(20, 20),
      tr_translate(gen_rectangle(2, 2), 5, 5),
      Arrow,
      << <<0, 0>>, <<4, 0>>, <<0, 4>> >>,
      << <<0, 0>>, <<4, 4>> >>,
      <<>> }

SeqInputs == UNION {[1 .. n -> SeqPolys] : n \in 0 .. MaxSeq}

QueryPoints == {<<2, 2>>, <<1, 1>>, <<9, 9>>}

MaxAreas == {Float(6), Float(20)}

Raise(name, a, e) ==
    /\ pc = "ready"
    /\ pc' = "done"
    /\ op' = name
    /\ args' = a
    /\ err' = e
    /\ UNCHANGED <<poly, point, polygons, result, it, out, apiBound, steps, last>>

Call_agr_origin_nearest == Return("agr_origin_nearest", None, agr_origin_nearest(polygons))

Call_agr_max_side ==
    IF agr_max_side_raises(polygons)
    THEN Raise("agr_max_side", None, "ValueError")
    ELSE Return("agr_max_side", None, agr_max_side(polygons))

Call_agr_min_area == Return("agr_min_area", None, agr_min_area(polygons))

Call_agr_perimeter == Return("agr_perimeter", None, agr_perimeter(polygons))

Call_agr_area == Return("agr_area", None, agr_area(polygons))

StartFilter(f) ==
    /\ pc = "ready"
    /\ pc' = "iterating"
    /\ op' = Kind(f)
    /\ it' = f
    /\ UNCHANGED <<args, poly, point, polygons, result, err, out, apiBound, steps, last>>

Call_flt_square == \E max_area \in MaxAreas : StartFilter(flt_square(polygons, max_area))

Call_flt_point_inside == \E pt \in QueryPoints : StartFilter(flt_point_inside(polygons, pt))

\* one next() on the filter: read on until an element passes or the input ends
Filter_next ==
    /\ pc = "iterating"
    /\ LET hit == NextHit(it, polygons) IN
       IF hit = 0
       THEN /\ it' = ReadUpTo(it, Len(polygons))
            /\ pc' = "exhausted"
            /\ out' = out
       ELSE /\ it' = ReadUpTo(it, hit)
            /\ pc' = pc
            /\ out' = Append(out, polygons[hit])
    /\ UNCHANGED <<op, args, poly, point, polygons, result, err, apiBound, steps, last>>

InitSeq ==
    /\ Idle
    /\ poly = <<>>
    /\ point = <<0, 0>>
    /\ polygons \in SeqInputs

NextSeq ==
    \/ Call_agr_origin_nearest
    \/ Call_agr_max_side
    \/ Call_agr_min_area
    \/ Call_agr_perimeter
    \/ Call_agr_area
    \/ Call_flt_square
    \/ Call_flt_point_inside
    \/ Filter_next

SpecSeq == InitSeq /\ [][NextSeq]_vars

\* a polygon that turns left at one vertex and right at another
TurnsBothWays(p) ==
    \E i, j \in 0 .. Len(p) - 1 :
        LET turn(k) == (Vertex(p, k + 1)[1] - Vertex(p, k)[1])
                         * (Vertex(p, k + 2)[2] - Vertex(p, k + 1)[2])
                       - (Vertex(p, k + 1)[2] - Vertex(p, k)[2])
                         * (Vertex(p, k + 2)[1] - Vertex(p, k + 1)[1])
        IN  turn(i) > 0 /\ turn(j) < 0

\* C1: flt_point_inside never passes a non-convex polygon, even when the point
\* is geometrically inside it: its output is, in input order, exactly the
\* polygons p read so far with is_convex(p) and point_in_polygon(p, point).
PointInsideNeverPassesNonConvex ==
    Kind(it) = "flt_point_inside" =>
        LET Both(p) == is_convex(p) /\ point_in_polygon(p, Arg(it)) IN
        /\ out = SelectSeq(SubSeq(polygons, 1, Pos(it)), Both)
        /\ \A k \in DOMAIN out : Len(out[k]) >= 3 /\ ~TurnsBothWays(out[k])

PointInsideWitness ==
    /\ pc = "exhausted"
    /\ Kind(it) = "flt_point_inside"
    /\ Arg(it) = <<2, 2>>
    /\ point_in_polygon(Arrow, Arg(it))
    /\ polygons = <<Arrow, << <<0, 0>>, <<4, 0>>, <<0, 4>> >> >>
    /\ out = << << <<0, 0>>, <<4, 0>>, <<0, 4>> >> >>

\* C7: on an empty polygon sequence every aggregator returns its identity
\* without raising: agr_area, agr_perimeter and agr_max_side 0.0, agr_min_area
\* +infinity, agr_origin_nearest (+infinity, +infinity).
EmptyInputGivesIdentity ==
    (polygons = <<>> /\ pc = "done") =>
        /\ err = "none"
        /\ op = "agr_area" => result = Float(0)
        /\ op = "agr_perimeter" => result = Float(0)
        /\ op = "agr_max_side" => result = Float(0)
        /\ op = "agr_min_area" => result = Inf
        /\ op = "agr_origin_nearest" => result = <<Inf, Inf>>

EmptyInputWitness ==
    /\ polygons = <<>>
    /\ op = "agr_min_area"
    /\ result = Inf
    /\ err = "none"

AllVertices ==
    UNION {{Lift(polygons[i][j]) : j \in DOMAIN polygons[i]} : i \in DOMAIN polygons}

\* C8: for a non-empty sequence of polygons agr_origin_nearest returns a vertex
\* of one of them whose distance to (0,0) is at most that of every vertex of
\* every input polygon, whatever their order, and never the sentinel.
NearestIsAClosestVertex ==
    (op = "agr_origin_nearest" /\ \E i \in DOMAIN polygons : polygons[i] # <<>>) =>
        /\ result # <<Inf, Inf>>
        /\ result \in AllVertices
        /\ \A v \in AllVertices :
               Num(result[1]) * Num(result[1]) + Num(result[2]) * Num(result[2])
                   <= Num(v[1]) * Num(v[1]) + Num(v[2]) * Num(v[2])

NearestWitness ==
    /\ op = "agr_origin_nearest"
    /\ polygons = <<tr_translate(gen_rectangle(2, 2), 5, 5), Arrow>>
    /\ result = <<Float(0), Float(0)>>

\* C9: flt_square yields exactly the input polygons of area strictly less than
\* max_area, each once and in input order, and reads every element of the
\* input exactly once.
AreaBelowIsStrictAndSinglePass ==
    Kind(it) = "flt_square" =>
        LET Below(p) == Num(polygon_area(p)) * Den(Arg(it)) < Num(Arg(it)) * Den(polygon_area(p)) IN
        /\ out = SelectSeq(SubSeq(polygons, 1, Pos(it)), Below)
        /\ \A j \in DOMAIN polygons : Reads(it)[j] = (IF j <= Pos(it) THEN 1 ELSE 0)
        /\ pc = "exhausted" => Pos(it) = Len(polygons)

AreaBelowWitness ==
    /\ pc = "exhausted"
    /\ Kind(it) = "flt_square"
    /\ Arg(it) = Float(6)
    /\ polygons = <<gen_rectangle(2, 3), <<<<0, 0>>, <<4, 4>>>>>>
    /\ out = <<<<<<0, 0>>, <<4, 4>>>>>>

---------------------------------------------------------------------------
(* main_console: the menu loop over the list polygons.  One action is one  *)
(* iteration of the loop, with the values typed at its prompts.  The       *)
(* prompts re-ask until the value is in range, so an action receives only  *)
(* accepted values.  user_interface.py uses the names of API_work2 without *)
(* importing them: with the names unbound the call raises NameError and    *)
(* the loop ends; with the names bound (apiBound) it runs as written.      *)

\* input_float(prompt, min_value): the typed values the prompt accepts
input_float(typed, min_value) == {v \in typed : min_value <= v}

\* input_int(prompt, min_value, max_value): the typed integers it accepts
input_int(min_value, max_value) == min_value .. max_value

TypedDims == {0 - Unit, 0, Unit \div 10, Unit}

TypedShifts == {<<Unit, 0>>, <<0 - Unit, Unit \div 2>>}

TypedRotations == {<<90, 0, 0>>, <<30, Unit, 0>>}

TypedScalings == {<<2, 0, 0>>, <<-1, Unit, Unit>>, <<0, 0, 0>>}

\* (polygons.append(p), the list grown instead of the entry replaced)
SetItem_append(list, index, p) == Append(list, p)

\* polygons[index] = p
SetItem(list, index, p) == [list EXCEPT ![index + 1] = p]

\* last = <<menu choice, index typed, the list before the iteration>>
Choice(l) == l[1]

Index(l) == l[2]

Before(l) == l[3]

Iteration(choice, index) ==
    /\ pc = "menu"
    /\ steps < MaxSteps
    /\ steps' = steps + 1
    /\ last' = <<choice, index, polygons>>
    /\ UNCHANGED <<op, args, poly, point, result, it, out, apiBound>>

\* the iteration ends and the menu is shown again
Stay == pc' = "menu" /\ err' = err

\* an unbound name is called: the exception leaves main_console
NameError == pc' = "crashed" /\ err' = "NameError" /\ polygons' = polygons

Menu_rectangle ==
    \E w \in input_float(TypedDims, Unit \div 10), h \in input_float(TypedDims, Unit \div 10) :
        /\ Iteration("1", 0)
        /\ IF apiBound
           THEN polygons' = Append(polygons, gen_rectangle(w, h)) /\ Stay
           ELSE NameError

Menu_triangle ==
    \E side \in input_float(TypedDims, Unit \div 10) :
        /\ Iteration("2", 0)
        /\ IF apiBound
           THEN polygons' = Append(polygons, gen_triangle(side)) /\ Stay
           ELSE NameError

Menu_hexagon ==
    \E side \in input_float(TypedDims, Unit \div 10) :
        /\ Iteration("3", 0)
        /\ IF apiBound
           THEN polygons' = Append(polygons, gen_hexagon(side)) /\ Stay
           ELSE NameError

Menu_transform_empty ==
    /\ polygons = <<>>
    /\ Iteration("4", 0)
    /\ polygons' = polygons
    /\ Stay

Menu_translate ==
    /\ polygons # <<>>
    /\ \E index \in input_int(0, Len(polygons) - 1), d \in TypedShifts :
        /\ Iteration("4", index)
        /\ IF apiBound
           THEN /\ polygons' = SetItem(polygons, index,
                                       tr_translate(polygons[index + 1], d[1], d[2]))
                /\ Stay
           ELSE NameError

Menu_rotate ==
    /\ polygons # <<>>
    /\ \E index \in input_int(0, Len(polygons) - 1), r \in TypedRotations :
        /\ Iteration("4", index)
        /\ IF apiBound
           THEN /\ polygons' = SetItem(polygons, index,
                                       tr_rotate(polygons[index + 1], r[1], r[2], r[3]))
                /\ Stay
           ELSE NameError

Menu_symmetry ==
    /\ polygons # <<>>
    /\ \E index \in input_int(0, Len(polygons) - 1), axis \in {"x", "y"} :
        /\ Iteration("4", index)
        /\ IF apiBound
           THEN /\ polygons' = SetItem(polygons, index,
                                       tr_symmetry(polygons[index + 1], axis))
                /\ Stay
           ELSE NameError

Menu_homothety ==
    /\ polygons # <<>>
    /\ \E index \in input_int(0, Len(polygons) - 1), h \in TypedScalings :
        /\ Iteration("4", index)
        /\ IF apiBound
           THEN /\ polygons' = SetItem(polygons, index,
                                       tr_homothety(polygons[index + 1], h[1], h[2], h[3]))
                /\ Stay
           ELSE NameError

\* visualize_polygons only draws; with an empty list a message is printed
Menu_visualize ==
    /\ Iteration("5", 0)
    /\ IF polygons = <<>> \/ apiBound
       THEN polygons' = polygons /\ Stay
       ELSE NameError

Menu_clear ==
    /\ Iteration("6", 0)
    /\ polygons' = <<>>
    /\ Stay

Menu_exit ==
    /\ Iteration("7", 0)
    /\ polygons' = polygons
    /\ pc' = "exited"
    /\ err' = err

InitConsole ==
    /\ pc = "menu" /\ op = "none" /\ args = None /\ result = None /\ err = "none"
    /\ it = NoIter /\ out = <<>> /\ steps = 0 /\ last = NoLast
    /\ poly = <<>> /\ point = <<0, 0>>
    /\ polygons = <<>>
    /\ apiBound \in BOOLEAN

NextConsole ==
    \/ Menu_rectangle
    \/ Menu_triangle
    \/ Menu_hexagon
    \/ Menu_transform_empty
    \/ Menu_translate
    \/ Menu_rotate
    \/ Menu_symmetry
    \/ Menu_homothety
    \/ Menu_visualize
    \/ Menu_clear
    \/ Menu_exit

SpecConsole == InitConsole /\ [][NextConsole]_vars

=============================================================================
